---- MODULE Spec2Model ----
(***************************************************************************)
(* A model of update_chess_ratings.py: the identifier extractor, the       *)
(* rating fetcher, the page updater and the category driver.               *)
(*                                                                         *)
(* Page text is a sequence of symbols.  Every literal word of the regular  *)
(* expressions (fide, classical_rating, rapid_rating, blitz_rating) is one *)
(* symbol; the other symbols are single characters.  A regular expression  *)
(* is modelled by the scan Python's re module performs: start positions    *)
(* from left to right, greedy quantifiers, the first match wins.           *)
(***************************************************************************)
EXTENDS Integers, Sequences, FiniteSets, TLC

VARIABLES
    pages,      \* the page objects of the category, in enumeration order
    idx,        \* position of the driver's for loop (0 before the first page)
    pc,         \* where the control is
    fide_id,    \* local fide_id: the last result of get_fide_id_from_page
    ratings,    \* local ratings: the last result of get_ratings
    response,   \* outcome of the last HTTP request
    requests,   \* per page: number of requests.get calls made for it
    saves,      \* per page: number of page.save calls made on it
    trace,      \* history: the operations performed, in order
    before      \* history: the page text before the last call on it

vars == <<pages, idx, pc, fide_id, ratings, response, requests, saves, trace, before>>

----------------------------------------------------------------------------
(* Bounds of the model *)

MaxLen == 5         \* longest generated page text, in symbols
MaxPages == 3       \* largest category
MaxEntries == 2     \* longest rating-service response list

----------------------------------------------------------------------------
(* Text *)

Labels == <<"classical_rating", "rapid_rating", "blitz_rating">>

WS == {" ", "\n"}

Digit == {"0", "1", "2", "3", "4", "5", "6", "7", "8", "9"}

SeqsUpTo(S, n) == UNION {[1..k -> S] : k \in 0..n}

\* \s* at position i: the position after the longest run of whitespace
RECURSIVE SkipWs(_, _)
SkipWs(t, i) ==
    IF i <= Len(t) /\ t[i] \in WS THEN SkipWs(t, i + 1) ELSE i

\* \d* at position i: the position after the longest run of digits
RECURSIVE SkipDigits(_, _)
SkipDigits(t, i) ==
    IF i <= Len(t) /\ t[i] \in Digit THEN SkipDigits(t, i + 1) ELSE i

\* .* at position i: the position after the rest of the line
RECURSIVE SkipLine(_, _)
SkipLine(t, i) ==
    IF i <= Len(t) /\ t[i] # "\n" THEN SkipLine(t, i + 1) ELSE i

NoMatch == [found |-> FALSE, group |-> <<>>]

\* FideMatchAt with (\d) for (\d+): the group is the first digit alone
FideMatchAtOneDigit(t, i) ==
    IF t[i] # "|" THEN NoMatch
    ELSE LET a == SkipWs(t, i + 1)
         IN  IF a > Len(t) \/ t[a] # "fide" THEN NoMatch
             ELSE LET b == SkipWs(t, a + 1)
                  IN  IF b > Len(t) \/ t[b] # "=" THEN NoMatch
                      ELSE LET c == SkipWs(t, b + 1)
                           IN  IF c > Len(t) \/ t[c] \notin Digit THEN NoMatch
                               ELSE [found |-> TRUE, group |-> <<t[c]>>]

\* \|\s*fide\s*=\s*(\d+) tried at position i
FideMatchAt(t, i) ==
    IF t[i] # "|" THEN NoMatch
    ELSE LET a == SkipWs(t, i + 1)
         IN  IF a > Len(t) \/ t[a] # "fide" THEN NoMatch
             ELSE LET b == SkipWs(t, a + 1)
                  IN  IF b > Len(t) \/ t[b] # "=" THEN NoMatch
                      ELSE LET c == SkipWs(t, b + 1)
                               d == SkipDigits(t, c)
                           IN  IF d = c THEN NoMatch
                               ELSE [found |-> TRUE, group |-> SubSeq(t, c, d - 1)]

\* re.search(r"\|\s*fide\s*=\s*(\d+)", text), scanning from position i
RECURSIVE FideSearch(_, _)
FideSearch(t, i) ==
    IF i > Len(t) THEN NoMatch
    ELSE LET m == FideMatchAt(t, i)
         IN  IF m.found THEN m ELSE FideSearch(t, i + 1)

\* LabelTailEnd with the trailing .* lost: the match ends at the equals sign
LabelTailEndNoRest(t, j, label) ==
    IF j > Len(t) \/ t[j] # label THEN 0
    ELSE LET k == SkipWs(t, j + 1)
         IN  IF k > Len(t) \/ t[k] # "=" THEN 0 ELSE k + 1

\* the tail of \|\s?<label>\s*=.* tried with the label at position j:
\* the position after the match, or 0
LabelTailEnd(t, j, label) ==
    IF j > Len(t) \/ t[j] # label THEN 0
    ELSE LET k == SkipWs(t, j + 1)
         IN  IF k > Len(t) \/ t[k] # "=" THEN 0 ELSE SkipLine(t, k + 1)

\* LabelMatchEnd with \s* for \s?: any run of whitespace after the pipe
LabelMatchEndAnyWs(t, i, label) ==
    IF t[i] # "|" THEN 0 ELSE LabelTailEnd(t, SkipWs(t, i + 1), label)

\* \|\s?<label>\s*=.* tried at position i: the position after the match, or 0.
\* \s? is greedy: one whitespace is taken first and given back on failure.
LabelMatchEnd(t, i, label) ==
    IF t[i] # "|" THEN 0
    ELSE LET greedy == IF i + 1 <= Len(t) /\ t[i + 1] \in WS
                       THEN LabelTailEnd(t, i + 2, label) ELSE 0
         IN  IF greedy # 0 THEN greedy ELSE LabelTailEnd(t, i + 1, label)

\* ReSub with count=1: only the first match is replaced
RECURSIVE ReSubFirstOnly(_, _, _, _)
ReSubFirstOnly(t, i, label, repl) ==
    IF i > Len(t) THEN <<>>
    ELSE LET e == LabelMatchEnd(t, i, label)
         IN  IF e # 0 THEN repl \o SubSeq(t, e, Len(t))
             ELSE <<t[i]>> \o ReSubFirstOnly(t, i + 1, label, repl)

\* re.sub(r"\|\s?<label>\s*=.*", repl, text), scanning from position i:
\* every non-overlapping match, left to right, is replaced by repl
RECURSIVE ReSub(_, _, _, _)
ReSub(t, i, label, repl) ==
    IF i > Len(t) THEN <<>>
    ELSE LET e == LabelMatchEnd(t, i, label)
         IN  IF e # 0 THEN repl \o ReSub(t, e, label, repl)
             ELSE <<t[i]>> \o ReSub(t, i + 1, label, repl)

DigitChar == <<"0", "1", "2", "3", "4", "5", "6", "7", "8", "9">>

\* str(n) of a non-negative integer, as the f-string formats it
RECURSIVE Str(_)
Str(n) ==
    IF n < 10 THEN <<DigitChar[n + 1]>>
    ELSE Str(n \div 10) \o <<DigitChar[(n % 10) + 1]>>

\* f"|<label> = {value}"
Replacement(label, value) == <<"|", label, " ", "=", " ">> \o Str(value)

\* the three substitutions of update_page_with_ratings, in their order
SubstituteRatings(t, r) ==
    LET t1 == ReSub(t, 1, "classical_rating",
                    Replacement("classical_rating", r.classical_rating))
        t2 == ReSub(t1, 1, "rapid_rating",
                    Replacement("rapid_rating", r.rapid_rating))
    IN  ReSub(t2, 1, "blitz_rating",
              Replacement("blitz_rating", r.blitz_rating))

----------------------------------------------------------------------------
(* Page objects *)

\* A page object: text is what page.text yields, loaded tells whether the
\* text has been fetched from the wiki (page.text loads it on first access
\* and answers from the loaded revision afterwards), wiki is the stored text.
NewPage(t) == [text |-> t, loaded |-> FALSE, wiki |-> t]

LoadedPage(t) == [text |-> t, loaded |-> TRUE, wiki |-> t]

\* reading page.text: fails only when the text must be fetched and the fetch
\* fails (readOk = FALSE)
CanRead(page, readOk) == page.loaded \/ readOk

----------------------------------------------------------------------------
(* get_fide_id_from_page *)

None == [kind |-> "none", classical_rating |-> 0, rapid_rating |-> 0,
         blitz_rating |-> 0]

\* the result of get_fide_id_from_page(page): the matched digits, or absent
\* when nothing matches or when reading the text raises (caught, line 21)
GetFideIdFromPage(page, readOk) ==
    IF CanRead(page, readOk) THEN FideSearch(page.text, 1) ELSE NoMatch

\* the page object after get_fide_id_from_page(page)
PageAfterRead(page, readOk) ==
    IF CanRead(page, readOk) THEN [page EXCEPT !.loaded = TRUE] ELSE page

----------------------------------------------------------------------------
(* get_ratings *)

Keys == {"classical_rating", "rapid_rating", "blitz_rating"}

RatingValues == {0, 12}

JNull == [t |-> "null", n |-> 0]

JNum(n) == [t |-> "num", n |-> n]

JValues == {JNull} \cup {JNum(n) : n \in RatingValues}

\* a JSON object holding some of the three keys, each null or a number
Objects == UNION {[S -> JValues] : S \in SUBSET Keys}

\* an element of the response list: an object, or a value that is no object
Entries == [isobj : {TRUE}, f : Objects] \cup {[isobj |-> FALSE, f |-> <<>>]}

\* first_entry.get(key, None)
DictGet(entry, key) == IF key \in DOMAIN entry.f THEN entry.f[key] ELSE JNull

FailureKinds == {"timeout", "connection_error", "http_error"}

OtherBodyKinds == {"not_json", "json_empty_object", "json_object",
                   "json_falsy_scalar", "json_truthy_scalar"}

\* what the single requests.get of get_ratings can end in
Outcome(kind, items) == [kind |-> kind, items |-> items]

HttpOutcomes ==
    {Outcome(k, <<>>) : k \in FailureKinds \cup OtherBodyKinds}
    \cup {Outcome("json_list", l) : l \in SeqsUpTo(Entries, MaxEntries)}

Raise == [kind |-> "raise", classical_rating |-> 0, rapid_rating |-> 0,
          blitz_rating |-> 0]

Dict(c, r, b) == [kind |-> "dict", classical_rating |-> c, rapid_rating |-> r,
                  blitz_rating |-> b]

\* RatingsOfList reading the last entry of the list for the first
RatingsOfListLast(items) ==
    IF items = <<>> THEN None
    ELSE LET first_entry == items[Len(items)]
         IN  IF ~first_entry.isobj THEN Raise
             ELSE LET c == DictGet(first_entry, "classical_rating")
                      r == DictGet(first_entry, "rapid_rating")
                      b == DictGet(first_entry, "blitz_rating")
                  IN  IF JNull \in {c, r, b} THEN None
                      ELSE Dict(c.n, r.n, b.n)

\* lines 42-54 on data that is a list
RatingsOfList(items) ==
    IF items = <<>> THEN None
    ELSE LET first_entry == items[1]
         IN  IF ~first_entry.isobj THEN Raise    \* no .get: AttributeError
             ELSE LET c == DictGet(first_entry, "classical_rating")
                      r == DictGet(first_entry, "rapid_rating")
                      b == DictGet(first_entry, "blitz_rating")
                  IN  IF JNull \in {c, r, b} THEN None
                      ELSE Dict(c.n, r.n, b.n)

\* get_ratings(fide_id) on an outcome of its request: the results it can have.
\* Only requests.exceptions.RequestException is caught (line 55): the errors
\* of requests.get and raise_for_status are, and so is the JSONDecodeError of
\* response.json() on a body that is no JSON (a RequestException since
\* requests 2.27).  What lines 42-47 raise on JSON of another shape is not:
\* data[0] on an object or a number (KeyError, TypeError), .get on an entry
\* that is no object (AttributeError).
GetRatings(out) ==
    CASE out.kind \in FailureKinds -> {None}
      [] out.kind = "not_json" -> {None}
      [] out.kind \in {"json_empty_object", "json_falsy_scalar"} -> {None}
      [] out.kind \in {"json_object", "json_truthy_scalar"} -> {Raise}
      [] out.kind = "json_list" -> {RatingsOfList(out.items)}

----------------------------------------------------------------------------
(* update_page_with_ratings *)

\* the page object after update_page_with_ratings(page, r)
PageAfterUpdate(page, r, readOk, saveOk) ==
    IF r.kind = "none" \/ ~CanRead(page, readOk) THEN page
    ELSE LET text == SubstituteRatings(page.text, r)
         IN  [text |-> text, loaded |-> TRUE,
              wiki |-> IF saveOk THEN text ELSE page.wiki]

\* SaveCalls with the `ratings is None` test lost
SaveCallsNoSkip(page, r, readOk) == IF ~CanRead(page, readOk) THEN 0 ELSE 1

\* the number of page.save calls update_page_with_ratings(page, r) makes
SaveCalls(page, r, readOk) ==
    IF r.kind = "none" \/ ~CanRead(page, readOk) THEN 0 ELSE 1

----------------------------------------------------------------------------
(* update_all_pages_in_category *)

\* Truthy with the `if not fide_id` test lost: every result passes
TruthyAlways(m) == TRUE

\* `if not fide_id`: None and the empty string are falsy
Truthy(m) == m.found /\ m.group # <<>>

NoResponse == Outcome("no_request", <<>>)

Event(op, page, result) == [op |-> op, page |-> page, result |-> result]

\* page texts of the categories the driver is run on
NoFideText == <<"{", "x", "\n", "|", "x", "=", "x", "\n", "}">>

PlayerText ==
    <<"{", "x", "\n",
      "|", " ", "fide", " ", "=", " ", "1", "2", "\n",
      "|", "classical_rating", " ", "=", " ", "7", "\n",
      "|", " ", "rapid_rating", "=", "\n",
      "|", "blitz_rating", " ", " ", "=", "x", "\n", "}">>

DriverTexts == {NoFideText, PlayerText}

FullEntry ==
    [isobj |-> TRUE,
     f |-> [k \in Keys |-> IF k = "rapid_rating" THEN JNum(0) ELSE JNum(12)]]

PartialEntry ==
    [isobj |-> TRUE, f |-> [k \in {"classical_rating"} |-> JNum(12)]]

NullEntry ==
    [isobj |-> TRUE,
     f |-> [k \in Keys |-> IF k = "blitz_rating" THEN JNull ELSE JNum(12)]]

NonObject == [isobj |-> FALSE, f |-> <<>>]

\* the request outcomes the driver is run against
DriverOutcomes ==
    {Outcome(k, <<>>) : k \in FailureKinds \cup OtherBodyKinds}
    \cup {Outcome("json_list", l) :
            l \in {<<>>, <<FullEntry>>, <<PartialEntry>>, <<NullEntry>>,
                   <<NonObject>>, <<FullEntry, NullEntry>>}}

Init ==
    /\ \E n \in 0..MaxPages :
          /\ pages \in [1..n -> {NewPage(t) : t \in DriverTexts}]
          /\ requests = [p \in 1..n |-> 0]
          /\ saves = [p \in 1..n |-> 0]
    /\ idx = 0
    /\ pc = "loop"
    /\ fide_id = NoMatch
    /\ ratings = None
    /\ response = NoResponse
    /\ trace = <<>>
    /\ before = <<>>

\* line 95: the for loop takes the next page of the enumeration, or ends
NextPage ==
    /\ pc = "loop"
    /\ IF idx < Len(pages)
       THEN idx' = idx + 1 /\ pc' = "extract"
       ELSE idx' = idx /\ pc' = "done"
    /\ UNCHANGED <<pages, fide_id, ratings, response, requests, saves, trace, before>>

\* lines 99-102: fide_id = get_fide_id_from_page(page); continue when falsy
ExtractId ==
    /\ pc = "extract"
    /\ \E readOk \in BOOLEAN :
          /\ fide_id' = GetFideIdFromPage(pages[idx], readOk)
          /\ pages' = [pages EXCEPT ![idx] = PageAfterRead(@, readOk)]
    /\ trace' = Append(trace, Event("extract", idx,
                                    IF fide_id'.found THEN "id" ELSE "absent"))
    /\ pc' = IF Truthy(fide_id') THEN "fetch" ELSE "loop"
    /\ UNCHANGED <<idx, ratings, response, requests, saves, before>>

\* FetchRatings asking again when get_ratings returned absent
FetchRatingsRetry ==
    /\ pc = "fetch"
    /\ \E out \in DriverOutcomes : \E res \in GetRatings(out) :
          /\ response' = out
          /\ IF res.kind = "raise"
             THEN pc' = "aborted" /\ ratings' = ratings
             ELSE /\ ratings' = res
                  /\ pc' = IF res.kind = "none" THEN "fetch" ELSE "update"
          /\ trace' = Append(trace, Event("fetch", idx, res.kind))
    /\ requests' = [requests EXCEPT ![idx] = @ + 1]
    /\ UNCHANGED <<pages, idx, fide_id, saves, before>>

\* lines 105-108: ratings = get_ratings(fide_id); continue when falsy.
\* An exception get_ratings lets through leaves the loop and the function.
FetchRatings ==
    /\ pc = "fetch"
    /\ \E out \in DriverOutcomes : \E res \in GetRatings(out) :
          /\ response' = out
          /\ IF res.kind = "raise"
             THEN pc' = "aborted" /\ ratings' = ratings
             ELSE /\ ratings' = res
                  /\ pc' = IF res.kind = "none" THEN "loop" ELSE "update"
          /\ trace' = Append(trace, Event("fetch", idx, res.kind))
    /\ requests' = [requests EXCEPT ![idx] = @ + 1]
    /\ UNCHANGED <<pages, idx, fide_id, saves, before>>

\* line 111: update_page_with_ratings(page, ratings)
UpdatePage ==
    /\ pc = "update"
    /\ \E readOk \in BOOLEAN, saveOk \in BOOLEAN :
          /\ pages' = [pages EXCEPT
                         ![idx] = PageAfterUpdate(@, ratings, readOk, saveOk)]
          /\ saves' = [saves EXCEPT
                         ![idx] = @ + SaveCalls(pages[idx], ratings, readOk)]
          /\ trace' = IF SaveCalls(pages[idx], ratings, readOk) = 1
                      THEN Append(trace, Event("save", idx,
                                               IF saveOk THEN "saved" ELSE "failed"))
                      ELSE trace
    /\ before' = pages[idx].text
    /\ pc' = "loop"
    /\ UNCHANGED <<idx, fide_id, ratings, response, requests>>

Next == NextPage \/ ExtractId \/ FetchRatings \/ UpdatePage

Spec == Init /\ [][Next]_vars

----------------------------------------------------------------------------
(* get_fide_id_from_page alone, on every short text and some longer ones *)

ExtractorAlphabet == {"|", " ", "\n", "=", "fide", "1", "x"}

ExtractorSamples ==
    {PlayerText, NoFideText,
     <<"|", "fide", "=", "1", "2", "3", "x", "|", "fide", "=", "4">>,
     <<"|", "fide", "=", "x", "|", "\n", " ", "fide", "\n", "=", " ", "\n", "2", "1", " ", "3">>,
     <<"fide", "=", "1", "|", "|", "fide", " ", "=", "0", "\n", "|", "fide", "=", "9">>}

ExtractorTexts == SeqsUpTo(ExtractorAlphabet, MaxLen) \cup ExtractorSamples

InitExtractor ==
    /\ \E t \in ExtractorTexts : pages = <<NewPage(t)>> /\ before = t
    /\ idx = 1
    /\ pc = "extractor"
    /\ fide_id = NoMatch
    /\ ratings = None
    /\ response = NoResponse
    /\ requests = <<0>>
    /\ saves = <<0>>
    /\ trace = <<>>

\* one call get_fide_id_from_page(page)
ExtractorCall ==
    /\ pc = "extractor"
    /\ \E readOk \in BOOLEAN :
          /\ fide_id' = GetFideIdFromPage(pages[1], readOk)
          /\ pages' = [pages EXCEPT ![1] = PageAfterRead(@, readOk)]
    /\ pc' = "extractor_returned"
    /\ trace' = Append(trace, Event("extract", 1,
                                    IF fide_id'.found THEN "id" ELSE "absent"))
    /\ UNCHANGED <<idx, ratings, response, requests, saves, before>>

SpecExtractor == InitExtractor /\ [][ExtractorCall]_vars

----------------------------------------------------------------------------
(* get_ratings alone, on every outcome of its request *)

InitFetcher ==
    /\ pages = <<>>
    /\ idx = 0
    /\ pc = "fetcher"
    /\ fide_id \in {[found |-> TRUE, group |-> g] : g \in {<<"1">>, <<"1", "2">>}}
    /\ ratings = None
    /\ response = NoResponse
    /\ requests = <<0>>
    /\ saves = <<>>
    /\ trace = <<>>
    /\ before = <<>>

\* one call get_ratings(fide_id)
FetcherCall ==
    /\ pc = "fetcher"
    /\ \E out \in HttpOutcomes : \E res \in GetRatings(out) :
          /\ response' = out
          /\ IF res.kind = "raise"
             THEN pc' = "fetcher_raised" /\ ratings' = ratings
             ELSE pc' = "fetcher_returned" /\ ratings' = res
    /\ requests' = [requests EXCEPT ![1] = @ + 1]
    /\ UNCHANGED <<pages, idx, fide_id, saves, trace, before>>

SpecFetcher == InitFetcher /\ [][FetcherCall]_vars

----------------------------------------------------------------------------
(* update_page_with_ratings alone, called twice with the same ratings *)

UpdaterAlphabet == {"|", " ", "\n", "=", "classical_rating", "rapid_rating"}

OneLineTemplate ==
    <<"{", "x", "|", "fide", "=", "1", "|", "classical_rating", "=", "7",
      "|", "rapid_rating", "=", "7", "|", "blitz_rating", "=", "7", "}">>

RepeatedLabels ==
    <<"|", "rapid_rating", "=", "1", "\n", "x", "|", " ", "rapid_rating", " ", "=", "2", "\n",
      "x", "\n", " ", " ", "|", " ", "classical_rating", " ", " ", "=", " ", "3">>

IndentedLine ==
    <<" ", " ", " ", "|", " ", "blitz_rating", " ", " ", "=", " ", " ", "1", "x", "=">>

WideGapLine ==
    <<"|", " ", " ", "blitz_rating", " ", "=", " ", "1">>

UpdaterSamples ==
    {PlayerText, NoFideText, OneLineTemplate, RepeatedLabels, IndentedLine,
     WideGapLine,
     <<"|", "blitz_rating", "=", "|", "rapid_rating", "=", "\n",
       "|", "rapid_rating", "=", "1", "\n", "|", "rapid_rating", "=", "2">>,
     <<" ", " ", "|", "blitz_rating", "=", "1", "\n",
       "|", " ", " ", "blitz_rating", "=", "1", "\n",
       "|", "\n", "blitz_rating", "\n", "=", "1">>}

UpdaterTexts == SeqsUpTo(UpdaterAlphabet, MaxLen) \cup UpdaterSamples

UpdaterRatings == {None, Dict(12, 0, 7)}

InitUpdater ==
    /\ \E t \in UpdaterTexts : pages = <<LoadedPage(t)>> /\ before = t
    /\ ratings \in UpdaterRatings
    /\ idx = 1
    /\ pc = "updater"
    /\ fide_id = NoMatch
    /\ response = NoResponse
    /\ requests = <<0>>
    /\ saves = <<0>>
    /\ trace = <<>>

\* update_page_with_ratings(page, ratings) on page 1
UpdaterEffect ==
    /\ \E readOk \in BOOLEAN, saveOk \in BOOLEAN :
          /\ pages' = [pages EXCEPT
                         ![1] = PageAfterUpdate(@, ratings, readOk, saveOk)]
          /\ saves' = [saves EXCEPT
                         ![1] = @ + SaveCalls(pages[1], ratings, readOk)]
    /\ before' = pages[1].text
    /\ UNCHANGED <<idx, fide_id, ratings, response, requests, trace>>

\* the first call
UpdaterCall ==
    /\ pc = "updater"
    /\ pc' = "updater_once"
    /\ UpdaterEffect

\* the same call again
UpdaterRecall ==
    /\ pc = "updater_once"
    /\ pc' = "updater_twice"
    /\ UpdaterEffect

NextUpdater == UpdaterCall \/ UpdaterRecall

SpecUpdater == InitUpdater /\ [][NextUpdater]_vars

----------------------------------------------------------------------------
(* The extractor's claim *)

AllWs(t, i, j) == \A k \in i..(j - 1) : t[k] \in WS

\* t holds  | ws* fide ws* = ws*  from position i, followed by the digits
\* t[c..d], and no digit follows them
FideOccurrence(t, i, c, d) ==
    /\ t[i] = "|"
    /\ c <= d
    /\ \A k \in c..d : t[k] \in Digit
    /\ d = Len(t) \/ t[d + 1] \notin Digit
    /\ \E a \in (i + 1)..(c - 2) :
          /\ t[a] = "fide"
          /\ AllWs(t, i + 1, a)
          /\ \E b \in (a + 1)..(c - 1) :
                t[b] = "=" /\ AllWs(t, a + 1, b) /\ AllWs(t, b + 1, c)

OccursAt(t, i) == \E c, d \in (i + 1)..Len(t) : FideOccurrence(t, i, c, d)

HasFide(t) == \E i \in 1..Len(t) : OccursAt(t, i)

\* C8: get_fide_id_from_page returns the digits of the first occurrence of
\* pipe, optional whitespace, fide, optional whitespace, =, optional
\* whitespace, digits in the page text; it returns absent when the text has
\* no occurrence (or cannot be read), and the page text is left as it was.
C8_FirstFideOccurrence ==
    pc = "extractor_returned" =>
        /\ pages[1].text = before
        /\ pages[1].wiki = before
        /\ IF pages[1].loaded /\ HasFide(before)
           THEN /\ fide_id.found
                /\ \E i \in 1..Len(before) :
                      /\ \A h \in 1..(i - 1) : ~OccursAt(before, h)
                      /\ \E c, d \in (i + 1)..Len(before) :
                            /\ FideOccurrence(before, i, c, d)
                            /\ fide_id.group = SubSeq(before, c, d)
           ELSE fide_id = NoMatch

\* a text with two occurrences of different identifiers was searched
C8_Witness ==
    /\ pc = "extractor_returned"
    /\ before = <<"|", "fide", "=", "1", "2", "3", "x", "|", "fide", "=", "4">>
    /\ fide_id = [found |-> TRUE, group |-> <<"1", "2", "3">>]

----------------------------------------------------------------------------
(* The fetcher's claims *)

FetcherDone == pc \in {"fetcher_returned", "fetcher_raised"}

\* the first entry holds the three ratings, none of them null
FirstEntryComplete(items) ==
    /\ items # <<>>
    /\ \A k \in Keys : k \in DOMAIN items[1].f /\ items[1].f[k].t = "num"

\* the response is a list of entries whose first entry, if any, is an object
EntryList(out) ==
    /\ out.kind = "json_list"
    /\ out.items = <<>> \/ out.items[1].isobj

\* C3: on a response that is a sequence of entries, get_ratings returns a
\* triple iff the sequence is non-empty and its first entry has the three
\* ratings present and not null; the triple is those three values; in every
\* other case the result is absent.
C3_TripleIffFirstEntryComplete ==
    (FetcherDone /\ EntryList(response)) =>
        /\ pc = "fetcher_returned"
        /\ IF FirstEntryComplete(response.items)
           THEN ratings = Dict(response.items[1].f["classical_rating"].n,
                               response.items[1].f["rapid_rating"].n,
                               response.items[1].f["blitz_rating"].n)
           ELSE ratings = None

\* a triple was returned from a list whose second entry is incomplete
C3_Witness ==
    /\ pc = "fetcher_returned"
    /\ ratings = Dict(12, 0, 12)
    /\ response = Outcome("json_list", <<FullEntry, NullEntry>>)

\* the request failed, or its body is not a list of objects
FailedOrMalformed(out) ==
    \/ out.kind \in FailureKinds \cup OtherBodyKinds
    \/ out.kind = "json_list" /\ out.items # <<>> /\ ~out.items[1].isobj

\* C4: for every outcome of the request (timeout, DNS failure, non-2xx
\* status, malformed body) get_ratings returns absent and never raises, and
\* it makes no second request.
C4_FailureReturnsAbsent ==
    (FetcherDone /\ FailedOrMalformed(response)) =>
        pc = "fetcher_returned" /\ ratings = None /\ requests[1] = 1

----------------------------------------------------------------------------
(* The driver's claims *)

Happened(op, page, result) ==
    \E i \in 1..Len(trace) : trace[i] = Event(op, page, result)

Visited(p) == \E i \in 1..Len(trace) : trace[i].page = p /\ trace[i].op = "extract"

\* C2: no failure while a page is processed leaves that page's iteration;
\* the loop goes on to the next page, so every page of the enumeration is
\* visited.
C2_EveryPageVisited ==
    pc \in {"done", "aborted"} => \A p \in 1..Len(pages) : Visited(p)

\* the driver is through with page p
Finished(p) == idx > p \/ (idx = p /\ pc \in {"loop", "done"})

\* page p was skipped: no identifier, or the fetch returned absent
Skipped(p) == Happened("extract", p, "absent") \/ Happened("fetch", p, "none")

Rank(op) == CASE op = "extract" -> 1 [] op = "fetch" -> 2 [] op = "save" -> 3

\* C9: the operations of a run are ordered by page, and on one page the
\* extraction comes before the fetch and the fetch before the save; no
\* operation touches a page the loop has not reached; a page gets at most
\* one fetch and at most one save.
C9_OnePageAtATime ==
    /\ \A i, j \in 1..Len(trace) :
          i < j =>
             \/ trace[i].page < trace[j].page
             \/ /\ trace[i].page = trace[j].page
                /\ Rank(trace[i].op) < Rank(trace[j].op)
    /\ \A i \in 1..Len(trace) : trace[i].page <= idx
    /\ \A p \in 1..Len(pages) : requests[p] <= 1 /\ saves[p] <= 1

\* two pages were both extracted, fetched and saved, in that order
C9_Witness ==
    /\ pc = "done"
    /\ Len(trace) = 6
    /\ <<trace[1].page, trace[2].page, trace[3].page>> = <<1, 1, 1>>
    /\ <<trace[4].op, trace[5].op, trace[6].op>> = <<"extract", "fetch", "save">>
    /\ trace[4].page = 2 /\ trace[6].page = 2

----------------------------------------------------------------------------
(* The updater's claims *)

UpdaterDone == pc \in {"updater_once", "updater_twice"}

\* C5: update_page_with_ratings called with absent ratings does not call
\* page.save and leaves the page's text as it was.
C5_AbsentRatingsNoWrite ==
    (UpdaterDone /\ ratings.kind = "none") =>
        /\ saves[1] = 0
        /\ pages[1].text = before
        /\ pages[1].wiki = before

\* the updater was called with absent ratings on a page with rating lines
C5_Witness ==
    /\ pc = "updater_once"
    /\ ratings = None
    /\ pages[1].text = PlayerText

\* C6: applying the same triple a second time leaves the page text as the
\* first application left it.
C6_SecondApplicationChangesNothing ==
    (pc = "updater_twice" /\ ratings.kind = "dict") => pages[1].text = before

UpdatedPlayerText ==
    <<"{", "x", "\n",
      "|", " ", "fide", " ", "=", " ", "1", "2", "\n",
      "|", "classical_rating", " ", "=", " ", "1", "2", "\n",
      "|", "rapid_rating", " ", "=", " ", "0", "\n",
      "|", "blitz_rating", " ", "=", " ", "7", "\n", "}">>

\* the triple was applied twice to a page with three rating lines
C6_Witness ==
    /\ pc = "updater_twice"
    /\ ratings = Dict(12, 0, 7)
    /\ saves[1] = 2
    /\ pages[1].text = UpdatedPlayerText


\* the lines of a text, as splitting it at the line breaks gives them
RECURSIVE SplitLines(_)
SplitLines(t) ==
    IF \A k \in 1..Len(t) : t[k] # "\n" THEN <<t>>
    ELSE LET k == CHOOSE k \in 1..Len(t) :
                     t[k] = "\n" /\ \A h \in 1..(k - 1) : t[h] # "\n"
         IN  <<SubSeq(t, 1, k - 1)>> \o SplitLines(SubSeq(t, k + 1, Len(t)))

\* t holds  | ws? label ws* =  from position i, the equals sign at position e
FieldAt(t, i, label, e) ==
    /\ t[i] = "|"
    /\ \E j \in {i + 1, i + 2} :
          /\ j < e
          /\ t[j] = label
          /\ AllWs(t, i + 1, j)
          /\ AllWs(t, j + 1, e)
    /\ t[e] = "="

\* the label's pattern matches somewhere in t
Matches(t, label) == \E i, e \in 1..Len(t) : FieldAt(t, i, label, e)

\* the first position of t where the label's pattern matches
FirstField(t, label) ==
    CHOOSE i \in 1..Len(t) :
        /\ \E e \in 1..Len(t) : FieldAt(t, i, label, e)
        /\ \A h \in 1..(i - 1) : \A e \in 1..Len(t) : ~FieldAt(t, h, label, e)

LabelSet == {Labels[n] : n \in 1..Len(Labels)}

\* a field of t has a line break between its pipe and its equals sign
SpansLines(t) ==
    \E label \in LabelSet : \E i, e \in 1..Len(t) :
        FieldAt(t, i, label, e) /\ \E k \in i..e : t[k] = "\n"

\* a line of t matches the patterns of two labels
MixedLine(t) ==
    \E n \in 1..Len(SplitLines(t)) : \E l1, l2 \in LabelSet :
        l1 # l2 /\ Matches(SplitLines(t)[n], l1) /\ Matches(SplitLines(t)[n], l2)

\* r contains s as a block of consecutive symbols
Contains(r, s) ==
    \E k \in 0..(Len(r) - Len(s)) : SubSeq(r, k + 1, k + Len(s)) = s

\* every line of old that matches a label carries the label's new value in
\* new, every other line is the same in both, and both have as many lines
LinesRewritten(old, new, r) ==
    /\ Len(SplitLines(new)) = Len(SplitLines(old))
    /\ \A n \in 1..Len(SplitLines(old)) :
          LET line == SplitLines(old)[n]
              out == SplitLines(new)[n]
          IN  /\ \A label \in LabelSet :
                    Matches(line, label) =>
                        Contains(out, Replacement(label, r[label]))
              /\ (\A label \in LabelSet : ~Matches(line, label)) => out = line

\* C7 as claimed: for any page text and any present triple, every line that
\* matches a label pattern carries the new value of that label afterwards,
\* every other line is unchanged, and the number of lines is the same.
C7_EveryTextLinewise ==
    (pc = "updater_once" /\ ratings.kind = "dict") =>
        LinesRewritten(before, pages[1].text, ratings)

\* C7 as amended: the same for every page text in which no field has a line
\* break between its pipe and its equals sign and no line matches two
\* labels; a matching line then becomes what stood before its first field,
\* followed by `|label = value`.
C7_WellFormedTextLinewise ==
    (pc = "updater_once" /\ ratings.kind = "dict"
        /\ ~SpansLines(before) /\ ~MixedLine(before)) =>
        /\ LinesRewritten(before, pages[1].text, ratings)
        /\ \A n \in 1..Len(SplitLines(before)) : \A label \in LabelSet :
              LET line == SplitLines(before)[n]
              IN  Matches(line, label) =>
                      SplitLines(pages[1].text)[n] =
                          SubSeq(line, 1, FirstField(line, label) - 1)
                              \o Replacement(label, ratings[label])

UpdatedRepeatedLabels ==
    <<"|", "rapid_rating", " ", "=", " ", "0", "\n",
      "x", "|", "rapid_rating", " ", "=", " ", "0", "\n",
      "x", "\n",
      " ", " ", "|", "classical_rating", " ", "=", " ", "1", "2">>

\* a text with a repeated label and unrelated lines was updated
C7_Witness ==
    /\ pc = "updater_once"
    /\ ratings = Dict(12, 0, 7)
    /\ before = RepeatedLabels
    /\ pages[1].text = UpdatedRepeatedLabels

Spaces(t, i, j) == \A k \in i..j : t[k] = " "

\* t is one rating line: a spaces, the pipe, b spaces, the label, spaces, the
\* equals sign, and a value holding no pipe
RatingLine(t, label, a, b) ==
    /\ Len(t) >= a + b + 3
    /\ Spaces(t, 1, a)
    /\ t[a + 1] = "|"
    /\ Spaces(t, a + 2, a + b + 1)
    /\ t[a + b + 2] = label
    /\ \E e \in (a + b + 3)..Len(t) :
          /\ t[e] = "="
          /\ Spaces(t, a + b + 3, e - 1)
          /\ \A k \in (e + 1)..Len(t) : t[k] \notin {"|", "\n"}

\* the line as rewritten: the leading spaces, then `|label = value`
Rewritten(t, label, a, r) == SubSeq(t, 1, a) \o Replacement(label, r[label])

\* C10 as claimed: a rating line is rewritten when it has at most one space
\* before the pipe (and at most one between the pipe and the label), and is
\* left alone outside that tolerance.
C10_ToleranceBeforePipe ==
    (pc = "updater_once" /\ ratings.kind = "dict") =>
        \A label \in LabelSet : \A a, b \in 0..Len(before) :
            RatingLine(before, label, a, b) =>
                pages[1].text = IF a <= 1 /\ b <= 1
                                THEN Rewritten(before, label, a, ratings)
                                ELSE before

\* C10 as amended: a rating line is rewritten when it has at most one space
\* between the pipe and the label, whatever the number of spaces before the
\* pipe and around the equals sign; with two or more spaces between the pipe
\* and the label it is left alone.
C10_ToleranceAfterPipe ==
    (pc = "updater_once" /\ ratings.kind = "dict") =>
        \A label \in LabelSet : \A a, b \in 0..Len(before) :
            RatingLine(before, label, a, b) =>
                pages[1].text = IF b <= 1
                                THEN Rewritten(before, label, a, ratings)
                                ELSE before

\* a line with several spaces before the pipe and around the equals sign and
\* one space after the pipe was rewritten
C10_Witness ==
    /\ pc = "updater_once"
    /\ ratings = Dict(12, 0, 7)
    /\ before = IndentedLine
    /\ RatingLine(before, "blitz_rating", 3, 1)
    /\ pages[1].text = <<" ", " ", " ", "|", "blitz_rating", " ", "=", " ", "7">>

====
